---- MODULE Spec2Model ----
(***************************************************************************)
(* Model of the event-ingestion / idempotency layer and the draft          *)
(* approval-to-scheduling state machine of linkedin-ghostwriter.           *)
(*                                                                         *)
(*   internal/slack/server.go      Server.handleEvents (dedup + routing)   *)
(*   internal/slack/approval.go    ApprovalHandler, MessageHandler         *)
(*   internal/slack/commands.go    CommandHandler                          *)
(*   internal/agents/scheduler.go  SchedulerAgent                          *)
(*   internal/database/post_repo.go PostRepository                         *)
(***************************************************************************)
EXTENDS Naturals, Integers, Sequences, FiniteSets, TLC

(***************************************************************************)
(* Bounds of the finite instance.                                          *)
(***************************************************************************)
MaxPosts == 3

MaxMsgs == 2

MaxThoughts == 1

MaxEventIDs == 3

MaxDay == 0

\* store calls that fail during one operation
MaxFail == 1

\* deliveries accepted by the concurrent workers
MaxDeliveries == 3
\* direct calls of the scheduler's operations in one behaviour
MaxCalls == 2
\* direct calls of StoreDraftMessage in one behaviour
MaxStores == 2
\* issue ids the tracker's webhook delivers
MaxIssues == 2
\* reactions handled in one behaviour of the concurrent reaction handlers
MaxReactions == 3
\* variations of the generate command the concurrent reactions are about
MaxBatch == 2
\* invocations of ScheduleApprovedPosts in one behaviour of the concurrent runs
MaxRuns == 2
\* deliveries to the issue tracker's webhook in one behaviour
MaxWebhooks == 3

VARIABLES
  posts,            \* the posts table: sequence of rows, index = post id, in creation order
  thoughts,         \* number of raw thoughts in the thoughts table
  draftCache,       \* ApprovalHandler.draftCache : messageTS -> sequence of post ids
  processedEvents,  \* Server.processedEvents : set of event keys marked true
  routed,           \* per event key, how many deliveries passed the duplicate check
                    \* and went on to the routing switch
  pc,               \* per webhook worker (goroutine): position inside handleEvents
  wreq,             \* per webhook worker: the event key of the delivery it is handling
  delivered,        \* number of deliveries the concurrent workers have accepted
  last,             \* observation of the last completed operation
  frame,            \* per goroutine: the local variables of the call it is executing
  processedIssues,  \* linear.WebhookHandler.processedIssues : set of issue ids marked true
  mu,               \* linear.WebhookHandler.mu : 0 when free, else the goroutine holding it
  issueThoughts     \* per issue id, the thoughts createThoughtFromIssue has stored for it

\* the state only the goroutine-level specifications move
goVars == <<frame, processedIssues, mu, issueThoughts>>

vars == <<posts, thoughts, draftCache, processedEvents, routed, pc, wreq, delivered, last, goVars>>

storeVars == <<posts, thoughts>>

(***************************************************************************)
(* Values.                                                                 *)
(***************************************************************************)
Statuses == {"draft", "approved", "rejected", "scheduled", "published"}

NilTime == [set |-> FALSE]

Workers == {1, 2}

Teams == {"T1"}

EventIDs == {"Ev" \o ToString(i) : i \in 1..MaxEventIDs}

CallbackEvent == "event_callback"

URLVerification == "url_verification"

\* every key handleEvents can compute for a callback delivery
EventKeys == EventIDs \cup {t \o ":" \o CallbackEvent : t \in Teams}

\* message ids: 0 is a message the bot never tracked, 1..MaxMsgs are summary messages
MsgIDs == 0..MaxMsgs

\* reaction names: one name per branch of the switch, plus one it does not list
Reactions == {"white_check_mark", "x", "one", "two", "three", "calendar", "thumbsup"}

PostIDs == 1..Len(posts)

SeqToSet(s) == {s[i] : i \in 1..Len(s)}

(***************************************************************************)
(* PostRepository (post_repo.go).  A store call on post id fails exactly   *)
(* when the caller's environment choice puts id in the set `fail`.         *)
(***************************************************************************)
NewPost(content) ==
  [status |-> "draft", scheduledAt |-> NilTime, publishedAt |-> NilTime, content |-> content]

GetByID(ps, id) == ps[id]

\* a write that only goes through while the row is still a draft
UpdateIfDraft(ps, id, post) == IF ps[id].status = "draft" THEN [ps EXCEPT ![id] = post] ELSE ps

\* a whole-row write that does not carry over the columns the caller left alone
UpdateClearsPublished(ps, id, post) == [ps EXCEPT ![id] = [post EXCEPT !.publishedAt = NilTime]]

Update(ps, id, post) == [ps EXCEPT ![id] = post]

UpdateStatus(ps, id, status) == [ps EXCEPT ![id].status = status]

\* ORDER BY created_at DESC: newest first
RECURSIVE GetByStatus(_, _, _)
GetByStatus(ps, status, i) ==
  IF i = 0 THEN <<>>
  ELSE IF ps[i].status = status THEN <<i>> \o GetByStatus(ps, status, i - 1)
       ELSE GetByStatus(ps, status, i - 1)

(***************************************************************************)
(* ApprovalHandler (approval.go).  Each operator returns the new table,    *)
(* the count it reports, the error it returns and the number of outbound   *)
(* messages it attempted.  sendFail is the error of client.SendMessage.    *)
(***************************************************************************)
Result(ps, count, err, sends, effect) ==
  [posts |-> ps, count |-> count, err |-> err, sends |-> sends, effect |-> effect]

\* variant: the loop stops at the first post that fails
RECURSIVE approveLoopAbort(_, _, _, _, _)
approveLoopAbort(ps, postIDs, i, fail, count) ==
  IF i > Len(postIDs) THEN [posts |-> ps, count |-> count]
  ELSE LET postID == postIDs[i] IN
       IF postID \in fail
       THEN [posts |-> ps, count |-> count]
       ELSE LET post == [GetByID(ps, postID) EXCEPT !.status = "approved"] IN
            approveLoopAbort(Update(ps, postID, post), postIDs, i + 1, fail, count + 1)

RECURSIVE approveLoop(_, _, _, _, _)
approveLoop(ps, postIDs, i, fail, count) ==
  IF i > Len(postIDs) THEN [posts |-> ps, count |-> count]
  ELSE LET postID == postIDs[i] IN
       IF postID \in fail
       THEN approveLoop(ps, postIDs, i + 1, fail, count)
       ELSE LET post == [GetByID(ps, postID) EXCEPT !.status = "approved"] IN
            approveLoop(Update(ps, postID, post), postIDs, i + 1, fail, count + 1)

approveDrafts(ps, postIDs, fail, sendFail) ==
  LET r == approveLoop(ps, postIDs, 1, fail, 0) IN
  Result(r.posts, r.count, sendFail, 1, "approveDrafts")

RECURSIVE rejectLoop(_, _, _, _, _)
rejectLoop(ps, postIDs, i, fail, count) ==
  IF i > Len(postIDs) THEN [posts |-> ps, count |-> count]
  ELSE LET postID == postIDs[i] IN
       IF postID \in fail
       THEN rejectLoop(ps, postIDs, i + 1, fail, count)
       ELSE rejectLoop(UpdateStatus(ps, postID, "rejected"), postIDs, i + 1, fail, count + 1)

rejectDrafts(ps, postIDs, fail, sendFail) ==
  LET r == rejectLoop(ps, postIDs, 1, fail, 0) IN
  Result(r.posts, r.count, sendFail, 1, "rejectDrafts")

\* the loop of approveSpecificDraft: errors of UpdateStatus are discarded
RECURSIVE rejectOthers(_, _, _, _, _)
rejectOthers(ps, postIDs, i, index, fail) ==
  IF i > Len(postIDs) THEN ps
  ELSE IF i # index + 1 /\ postIDs[i] \notin fail
       THEN rejectOthers(UpdateStatus(ps, postIDs[i], "rejected"), postIDs, i + 1, index, fail)
       ELSE rejectOthers(ps, postIDs, i + 1, index, fail)

\* variant: the other variations are left as they are
approveSpecificDraftOnly(ps, postIDs, index, fail, sendFail) ==
  IF index >= Len(postIDs)
  THEN Result(ps, 0, sendFail, 1, "invalidVariation")
  ELSE LET postID == postIDs[index + 1] IN
       IF postID \in fail
       THEN Result(ps, 0, TRUE, 0, "approveSpecificDraft")
       ELSE LET post == [GetByID(ps, postID) EXCEPT !.status = "approved"] IN
            Result(Update(ps, postID, post), 1, sendFail, 1, "approveSpecificDraft")

\* index is 0-based as in the source
approveSpecificDraft(ps, postIDs, index, fail, sendFail) ==
  IF index >= Len(postIDs)
  THEN Result(ps, 0, sendFail, 1, "invalidVariation")
  ELSE LET postID == postIDs[index + 1] IN
       IF postID \in fail
       THEN Result(ps, 0, TRUE, 0, "approveSpecificDraft")
       ELSE LET post == [GetByID(ps, postID) EXCEPT !.status = "approved"]
                ps1  == Update(ps, postID, post)
            IN Result(rejectOthers(ps1, postIDs, 1, index, fail), 1, sendFail, 1,
                      "approveSpecificDraft")

\* variant: the calendar reaction moves the posts to scheduled itself
scheduleDraftsSetsScheduled(ps, postIDs, fail, sendFail) ==
  LET r == approveLoop(ps, postIDs, 1, fail, 0) IN
  Result([i \in 1..Len(r.posts) |->
            IF i \in SeqToSet(postIDs) \ fail
            THEN [r.posts[i] EXCEPT !.status = "scheduled"] ELSE r.posts[i]],
         r.count, sendFail, 1, "scheduleDrafts")

scheduleDrafts(ps, postIDs, fail, sendFail) ==
  LET r == approveLoop(ps, postIDs, 1, fail, 0) IN
  Result(r.posts, r.count, sendFail, 1, "scheduleDrafts")

\* variant: the lookup result is used without testing that the entry exists
HandleReactionNoCheck(ps, cache, msg, reaction, fail, sendFail) ==
  LET postIDs == IF msg \in DOMAIN cache THEN cache[msg] ELSE <<>> IN
  CASE reaction = "white_check_mark" -> approveDrafts(ps, postIDs, fail, sendFail)
    [] reaction = "x"        -> rejectDrafts(ps, postIDs, fail, sendFail)
    [] reaction = "one"      -> approveSpecificDraft(ps, postIDs, 0, fail, sendFail)
    [] reaction = "two"      -> approveSpecificDraft(ps, postIDs, 1, fail, sendFail)
    [] reaction = "three"    -> approveSpecificDraft(ps, postIDs, 2, fail, sendFail)
    [] reaction = "calendar" -> scheduleDrafts(ps, postIDs, fail, sendFail)
    [] OTHER                 -> Result(ps, 0, FALSE, 0, "unknownReaction")

\* variant: a symbol outside the table falls through to approve-all
HandleReactionDefaultApprove(ps, cache, msg, reaction, fail, sendFail) ==
  IF msg \notin DOMAIN cache
  THEN Result(ps, 0, FALSE, 0, "noDraft")
  ELSE LET postIDs == cache[msg] IN
       CASE reaction = "x"        -> rejectDrafts(ps, postIDs, fail, sendFail)
         [] reaction = "one"      -> approveSpecificDraft(ps, postIDs, 0, fail, sendFail)
         [] reaction = "two"      -> approveSpecificDraft(ps, postIDs, 1, fail, sendFail)
         [] reaction = "three"    -> approveSpecificDraft(ps, postIDs, 2, fail, sendFail)
         [] reaction = "calendar" -> scheduleDrafts(ps, postIDs, fail, sendFail)
         [] OTHER                 -> approveDrafts(ps, postIDs, fail, sendFail)

HandleReaction(ps, cache, msg, reaction, fail, sendFail) ==
  IF msg \notin DOMAIN cache
  THEN Result(ps, 0, FALSE, 0, "noDraft")
  ELSE LET postIDs == cache[msg] IN
       CASE reaction = "white_check_mark" -> approveDrafts(ps, postIDs, fail, sendFail)
         [] reaction = "x"        -> rejectDrafts(ps, postIDs, fail, sendFail)
         [] reaction = "one"      -> approveSpecificDraft(ps, postIDs, 0, fail, sendFail)
         [] reaction = "two"      -> approveSpecificDraft(ps, postIDs, 1, fail, sendFail)
         [] reaction = "three"    -> approveSpecificDraft(ps, postIDs, 2, fail, sendFail)
         [] reaction = "calendar" -> scheduleDrafts(ps, postIDs, fail, sendFail)
         [] OTHER                 -> Result(ps, 0, FALSE, 0, "unknownReaction")

(***************************************************************************)
(* SchedulerAgent (scheduler.go).  A time-of-day string is a sequence of   *)
(* characters; a date is a day number; a timestamp is a record.            *)
(***************************************************************************)
T0900 == <<"0", "9", ":", "0", "0">>

T1200 == <<"1", "2", ":", "0", "0">>

T1300 == <<"1", "3", ":", "0", "0">>

T1500 == <<"1", "5", ":", "0", "0">>

T1700 == <<"1", "7", ":", "0", "0">>

T1800 == <<"1", "8", ":", "0", "0">>

\* "9:00" (accepted: the hour may have one digit), "25:00" and "0900" (rejected)
T900 == <<"9", ":", "0", "0">>

T2500 == <<"2", "5", ":", "0", "0">>

TNoColon == <<"0", "9", "0", "0">>

isDigit(s, i) == i <= Len(s) /\ s[i] \in {"0", "1", "2", "3", "4", "5", "6", "7", "8", "9"}

digitVal(c) ==
  CASE c = "0" -> 0 [] c = "1" -> 1 [] c = "2" -> 2 [] c = "3" -> 3 [] c = "4" -> 4
    [] c = "5" -> 5 [] c = "6" -> 6 [] c = "7" -> 7 [] c = "8" -> 8 [] c = "9" -> 9

\* time.Parse("15:04", timeStr): hour of one or two digits below 24, a colon,
\* a minute of exactly two digits below 60, and nothing after it
timeParse(s) ==
  LET bad == [ok |-> FALSE, hour |-> 0, min |-> 0] IN
  IF ~isDigit(s, 1) THEN bad
  ELSE LET two  == isDigit(s, 2)
           hour == IF two THEN 10 * digitVal(s[1]) + digitVal(s[2]) ELSE digitVal(s[1])
           c    == IF two THEN 3 ELSE 2
       IN IF hour >= 24 THEN bad
          ELSE IF ~(c <= Len(s) /\ s[c] = ":") THEN bad
          ELSE IF ~(isDigit(s, c + 1) /\ isDigit(s, c + 2)) THEN bad
          ELSE LET min == 10 * digitVal(s[c + 1]) + digitVal(s[c + 2]) IN
               IF min >= 60 \/ Len(s) > c + 2 THEN bad
               ELSE [ok |-> TRUE, hour |-> hour, min |-> min]

Time(day, hour, min, loc) ==
  [set |-> TRUE, day |-> day, hour |-> hour, min |-> min, loc |-> loc]

KnownZones == {"Asia/Kolkata"}

\* time.LoadLocation: "" and "UTC" give UTC, a zone of the database gives itself
LoadLocation(name) ==
  IF name \in {"", "UTC"} THEN [ok |-> TRUE, loc |-> "UTC"]
  ELSE IF name \in KnownZones THEN [ok |-> TRUE, loc |-> name]
  ELSE [ok |-> FALSE, loc |-> ""]

calculateScheduledTime(date, timeStr, location) ==
  LET parsedTime == timeParse(timeStr) IN
  IF ~parsedTime.ok THEN [ok |-> FALSE, time |-> NilTime]
  ELSE [ok |-> TRUE, time |-> Time(date, parsedTime.hour, parsedTime.min, location)]

\* variant: a value outside 1..4 falls back to the two-slot table
getDefaultTimesTwoSlots(postsPerDay) ==
  CASE postsPerDay = 1 -> <<T0900>>
    [] postsPerDay = 2 -> <<T0900, T1500>>
    [] postsPerDay = 3 -> <<T0900, T1300, T1700>>
    [] postsPerDay = 4 -> <<T0900, T1200, T1500, T1800>>
    [] OTHER           -> <<T0900, T1500>>

getDefaultTimes(postsPerDay) ==
  CASE postsPerDay = 1 -> <<T0900>>
    [] postsPerDay = 2 -> <<T0900, T1500>>
    [] postsPerDay = 3 -> <<T0900, T1300, T1700>>
    [] postsPerDay = 4 -> <<T0900, T1200, T1500, T1800>>
    [] OTHER           -> <<T0900, T1300, T1700>>

ScheduleConfig(postsPerDay, preferredTimes, startDate, timezone) ==
  [PostsPerDay |-> postsPerDay, PreferredTimes |-> preferredTimes,
   StartDate |-> startDate, Timezone |-> timezone]

\* variant: the date is not advanced when the slots of a day are used up
nextSlotSameDay(currentDate, timeSlotIndex, nTimes) ==
  IF timeSlotIndex + 1 >= nTimes
  THEN [date |-> currentDate, index |-> 0]
  ELSE [date |-> currentDate, index |-> timeSlotIndex + 1]

\* "Move to next time slot": the slot index and the date after a scheduled post
nextSlot(currentDate, timeSlotIndex, nTimes) ==
  IF timeSlotIndex + 1 >= nTimes
  THEN [date |-> currentDate + 1, index |-> 0]
  ELSE [date |-> currentDate, index |-> timeSlotIndex + 1]

\* variant: the loop stops at the first post whose Update fails
RECURSIVE scheduleLoopAbort(_, _, _, _, _, _, _, _, _, _, _)
scheduleLoopAbort(ps, fetched, approvedPosts, i, times, location, currentDate, timeSlotIndex, fail, scheduledCount, failed) ==
  IF i > Len(approvedPosts)
  THEN [posts |-> ps, count |-> scheduledCount, failed |-> failed]
  ELSE LET id == approvedPosts[i]
           t  == calculateScheduledTime(currentDate, times[timeSlotIndex + 1], location)
       IN IF ~t.ok
          THEN scheduleLoopAbort(ps, fetched, approvedPosts, i + 1, times, location,
                                 currentDate, timeSlotIndex, fail, scheduledCount, failed)
          ELSE IF id \in fail
          THEN [posts |-> ps, count |-> scheduledCount, failed |-> failed \cup {id}]
          ELSE LET post == [fetched[id] EXCEPT !.scheduledAt = t.time, !.status = "scheduled"]
                   n    == nextSlot(currentDate, timeSlotIndex, Len(times))
               IN scheduleLoopAbort(Update(ps, id, post), fetched, approvedPosts, i + 1,
                                    times, location, n.date, n.index, fail,
                                    scheduledCount + 1, failed)

\* variant: the slot is used up by a post that could not be scheduled
RECURSIVE scheduleLoopSlotPerPost(_, _, _, _, _, _, _, _, _, _, _)
scheduleLoopSlotPerPost(ps, fetched, approvedPosts, i, times, location, currentDate, timeSlotIndex, fail, scheduledCount, failed) ==
  IF i > Len(approvedPosts)
  THEN [posts |-> ps, count |-> scheduledCount, failed |-> failed]
  ELSE LET id == approvedPosts[i]
           t  == calculateScheduledTime(currentDate, times[timeSlotIndex + 1], location)
           n  == nextSlot(currentDate, timeSlotIndex, Len(times))
       IN IF ~t.ok
          THEN scheduleLoopSlotPerPost(ps, fetched, approvedPosts, i + 1, times, location,
                                       n.date, n.index, fail, scheduledCount, failed)
          ELSE IF id \in fail
          THEN scheduleLoopSlotPerPost(ps, fetched, approvedPosts, i + 1, times, location,
                                       n.date, n.index, fail, scheduledCount,
                                       failed \cup {id})
          ELSE LET post == [fetched[id] EXCEPT !.scheduledAt = t.time, !.status = "scheduled"]
               IN scheduleLoopSlotPerPost(Update(ps, id, post), fetched, approvedPosts,
                                          i + 1, times, location, n.date, n.index, fail,
                                          scheduledCount + 1, failed)

\* the loop over approvedPosts: fetched is the table as read by GetByStatus;
\* failed collects the posts whose Update returned an error
RECURSIVE scheduleLoop(_, _, _, _, _, _, _, _, _, _, _)
scheduleLoop(ps, fetched, approvedPosts, i, times, location, currentDate, timeSlotIndex, fail, scheduledCount, failed) ==
  IF i > Len(approvedPosts)
  THEN [posts |-> ps, count |-> scheduledCount, failed |-> failed]
  ELSE LET id == approvedPosts[i]
           t  == calculateScheduledTime(currentDate, times[timeSlotIndex + 1], location)
       IN IF ~t.ok
          THEN scheduleLoop(ps, fetched, approvedPosts, i + 1, times, location, currentDate,
                            timeSlotIndex, fail, scheduledCount, failed)
          ELSE IF id \in fail
          THEN scheduleLoop(ps, fetched, approvedPosts, i + 1, times, location, currentDate,
                            timeSlotIndex, fail, scheduledCount, failed \cup {id})
          ELSE LET post == [fetched[id] EXCEPT !.scheduledAt = t.time, !.status = "scheduled"]
                   n    == nextSlot(currentDate, timeSlotIndex, Len(times))
               IN scheduleLoop(Update(ps, id, post), fetched, approvedPosts, i + 1, times,
                               location, n.date, n.index, fail, scheduledCount + 1, failed)

\* variant: a zone name that cannot be loaded is an error
ScheduleApprovedPostsStrictZone(ps, config, fetchFail, fail) ==
  IF fetchFail THEN [posts |-> ps, count |-> 0, err |-> TRUE, failed |-> {}]
  ELSE LET approvedPosts == GetByStatus(ps, "approved", Len(ps)) IN
       IF Len(approvedPosts) = 0
       THEN [posts |-> ps, count |-> 0, err |-> FALSE, failed |-> {}]
       ELSE LET l == LoadLocation(config.Timezone) IN
            IF ~l.ok THEN [posts |-> ps, count |-> 0, err |-> TRUE, failed |-> {}]
            ELSE LET times == IF Len(config.PreferredTimes) = 0
                              THEN getDefaultTimes(config.PostsPerDay)
                              ELSE config.PreferredTimes
                     r     == scheduleLoop(ps, ps, approvedPosts, 1, times, l.loc,
                                           config.StartDate, 0, fail, 0, {})
                 IN [posts |-> r.posts, count |-> r.count, err |-> FALSE,
                     failed |-> r.failed]

\* variant: an empty list of approved posts is reported as an error
ScheduleApprovedPostsEmptyErr(ps, config, fetchFail, fail) ==
  IF fetchFail THEN [posts |-> ps, count |-> 0, err |-> TRUE, failed |-> {}]
  ELSE LET approvedPosts == GetByStatus(ps, "approved", Len(ps)) IN
       IF Len(approvedPosts) = 0
       THEN [posts |-> ps, count |-> 0, err |-> TRUE, failed |-> {}]
       ELSE LET l        == LoadLocation(config.Timezone)
                location == IF l.ok THEN l.loc ELSE "UTC"
                times    == IF Len(config.PreferredTimes) = 0
                            THEN getDefaultTimes(config.PostsPerDay)
                            ELSE config.PreferredTimes
                r        == scheduleLoop(ps, ps, approvedPosts, 1, times, location,
                                         config.StartDate, 0, fail, 0, {})
            IN [posts |-> r.posts, count |-> r.count, err |-> FALSE, failed |-> r.failed]

\* the latest day on which a post of the table is already scheduled, or d
RECURSIVE lastScheduledDay(_, _, _)
lastScheduledDay(ps, i, d) ==
  IF i = 0 THEN d
  ELSE IF ps[i].status = "scheduled" /\ ps[i].scheduledAt.set /\ ps[i].scheduledAt.day >= d
       THEN lastScheduledDay(ps, i - 1, ps[i].scheduledAt.day + 1)
       ELSE lastScheduledDay(ps, i - 1, d)

\* variant: the run starts on the day after the last day already taken
ScheduleApprovedPostsAfterTaken(ps, config, fetchFail, fail) ==
  IF fetchFail THEN [posts |-> ps, count |-> 0, err |-> TRUE, failed |-> {}]
  ELSE LET approvedPosts == GetByStatus(ps, "approved", Len(ps)) IN
       IF Len(approvedPosts) = 0
       THEN [posts |-> ps, count |-> 0, err |-> FALSE, failed |-> {}]
       ELSE LET l        == LoadLocation(config.Timezone)
                location == IF l.ok THEN l.loc ELSE "UTC"
                times    == IF Len(config.PreferredTimes) = 0
                            THEN getDefaultTimes(config.PostsPerDay)
                            ELSE config.PreferredTimes
                r        == scheduleLoop(ps, ps, approvedPosts, 1, times, location,
                                         lastScheduledDay(ps, Len(ps), config.StartDate),
                                         0, fail, 0, {})
            IN [posts |-> r.posts, count |-> r.count, err |-> FALSE, failed |-> r.failed]

ScheduleApprovedPosts(ps, config, fetchFail, fail) ==
  IF fetchFail THEN [posts |-> ps, count |-> 0, err |-> TRUE, failed |-> {}]
  ELSE LET approvedPosts == GetByStatus(ps, "approved", Len(ps)) IN
       IF Len(approvedPosts) = 0
       THEN [posts |-> ps, count |-> 0, err |-> FALSE, failed |-> {}]
       ELSE LET l        == LoadLocation(config.Timezone)
                location == IF l.ok THEN l.loc ELSE "UTC"
                times    == IF Len(config.PreferredTimes) = 0
                            THEN getDefaultTimes(config.PostsPerDay)
                            ELSE config.PreferredTimes
                r        == scheduleLoop(ps, ps, approvedPosts, 1, times, location,
                                         config.StartDate, 0, fail, 0, {})
            IN [posts |-> r.posts, count |-> r.count, err |-> FALSE, failed |-> r.failed]

ReschedulePost(ps, postID, newTime, fail) ==
  IF postID \in fail THEN [posts |-> ps, err |-> TRUE]
  ELSE LET post == GetByID(ps, postID) IN
       IF post.status # "scheduled" THEN [posts |-> ps, err |-> TRUE]
       ELSE [posts |-> Update(ps, postID, [post EXCEPT !.scheduledAt = newTime]),
             err |-> FALSE]

\* variant: the status goes back to approved but the time is kept
CancelScheduleKeepsTime(ps, postID, fail) ==
  IF postID \in fail THEN [posts |-> ps, err |-> TRUE]
  ELSE LET post == [GetByID(ps, postID) EXCEPT !.status = "approved"]
       IN [posts |-> Update(ps, postID, post), err |-> FALSE]

CancelSchedule(ps, postID, fail) ==
  IF postID \in fail THEN [posts |-> ps, err |-> TRUE]
  ELSE LET post == [GetByID(ps, postID) EXCEPT !.status = "approved",
                                               !.scheduledAt = NilTime]
       IN [posts |-> Update(ps, postID, post), err |-> FALSE]

(***************************************************************************)
(* CommandHandler (commands.go) and MessageHandler (approval.go).  A       *)
(* handler outcome carries the new store and cache, what the handler       *)
(* returned, and the inputs that produced it.                              *)
(***************************************************************************)
Outcome(handler, effect, in, ps, th, cache, count, err, sends, fail) ==
  [handler |-> handler, effect |-> effect, in |-> in, posts |-> ps, thoughts |-> th,
   cache |-> cache, count |-> count, err |-> err, sends |-> sends, fail |-> fail]

\* args[0] of the schedule command: absent, not a number, or a number
ScheduleArgs ==
  {[kind |-> "none", val |-> 0], [kind |-> "text", val |-> 0]}
    \cup {[kind |-> "int", val |-> v] : v \in 0..5}

\* fmt.Sscanf(args[0], "%d", &postsPerDay) leaves the default when nothing scans
scanPostsPerDay(arg) == IF arg.kind = "int" THEN arg.val ELSE 2

\* variant: the range of postsPerDay is not checked
HandleScheduleNoCheck(ps, th, cache, arg, now, fetchFail, fail, sendFail) ==
  LET postsPerDay == scanPostsPerDay(arg)
      in          == [cmd |-> "schedule", arg |-> arg, now |-> now,
                      postsPerDay |-> postsPerDay, fetchFail |-> fetchFail]
      config      == ScheduleConfig(postsPerDay, <<>>, now + 1, "Asia/Kolkata")
      r           == ScheduleApprovedPosts(ps, config, fetchFail, fail)
  IN IF r.err
     THEN Outcome("HandleAppMention", "scheduleFailed", in, r.posts, th, cache, 0,
                  sendFail, 2, r.failed)
     ELSE Outcome("HandleAppMention", "schedule", in, r.posts, th, cache, r.count,
                  sendFail, 2, r.failed)

HandleSchedule(ps, th, cache, arg, now, fetchFail, fail, sendFail) ==
  LET postsPerDay == scanPostsPerDay(arg)
      in0         == [cmd |-> "schedule", arg |-> arg, now |-> now,
                      postsPerDay |-> postsPerDay, fetchFail |-> FALSE]
      in          == [in0 EXCEPT !.fetchFail = fetchFail]
  IN IF postsPerDay < 1 \/ postsPerDay > 4
     THEN Outcome("HandleAppMention", "invalidPostsPerDay", in0, ps, th, cache, 0,
                  sendFail, 1, {})
     ELSE LET config == ScheduleConfig(postsPerDay, <<>>, now + 1, "Asia/Kolkata")
              r      == ScheduleApprovedPosts(ps, config, fetchFail, fail)
          IN IF r.err
             THEN Outcome("HandleAppMention", "scheduleFailed", in, r.posts, th, cache, 0,
                          sendFail, 2, r.failed)
             ELSE Outcome("HandleAppMention", "schedule", in, r.posts, th, cache, r.count,
                          sendFail, 2, r.failed)

\* the loop that saves the drafts: a failed Create is skipped
RECURSIVE createLoop(_, _, _, _, _)
createLoop(ps, postIDs, i, n, createFail) ==
  IF i > n THEN [posts |-> ps, postIDs |-> postIDs]
  ELSE IF i \in createFail
       THEN createLoop(ps, postIDs, i + 1, n, createFail)
       ELSE createLoop(Append(ps, NewPost(i)), Append(postIDs, Len(ps) + 1), i + 1, n,
                       createFail)

\* HandleGenerateDraft for "generate" without a topic, followed by
\* sendMessageAndGetTS and StoreDraftMessage as in HandleAppMention
\* variant: the post IDs are added to the entry the message already has
StoreDraftMessageAppend(cache, messageTS, postIDs) ==
  [m \in DOMAIN cache \cup {messageTS} |->
     IF m # messageTS THEN cache[m]
     ELSE IF m \in DOMAIN cache THEN cache[m] \o postIDs ELSE postIDs]

StoreDraftMessage(cache, messageTS, postIDs) ==
  [m \in DOMAIN cache \cup {messageTS} |-> IF m = messageTS THEN postIDs ELSE cache[m]]

HandleGenerate(ps, th, cache, n, genFail, createFail, sendFail) ==
  LET in  == [cmd |-> "generate", n |-> n, createFail |-> createFail]
      in0 == [cmd |-> "generate", n |-> 0, createFail |-> {}]
  IN
  IF th = 0
  THEN Outcome("HandleAppMention", "noThoughts", in0, ps, th, cache, 0, TRUE, 1, {})
  ELSE IF genFail
  THEN Outcome("HandleAppMention", "generateFailed", in0, ps, th, cache, 0, TRUE, 2, {})
  ELSE LET r == createLoop(ps, <<>>, 1, n, createFail) IN
       IF sendFail
       THEN Outcome("HandleAppMention", "summaryNotSent", in, r.posts, th, cache, 0, TRUE,
                    2, {})
       ELSE LET messageTS == Cardinality(DOMAIN cache) + 1 IN
            Outcome("HandleAppMention", "generate", in, r.posts, th,
                    StoreDraftMessage(cache, messageTS, r.postIDs), Len(r.postIDs), FALSE,
                    2, {})

\* a mention that is no command is captured as a thought; "help" only answers
HandleMentionThought(ps, th, cache, createFail, sendFail) ==
  LET in == [cmd |-> "thought"] IN
  IF createFail
  THEN Outcome("HandleAppMention", "thoughtNotSaved", in, ps, th, cache, 0, TRUE, 0, {})
  ELSE Outcome("HandleAppMention", "thought", in, ps, th + 1, cache, 0, sendFail, 1, {})

HandleHelp(ps, th, cache, sendFail) ==
  Outcome("HandleAppMention", "help", [cmd |-> "help"], ps, th, cache, 0, sendFail, 1, {})

\* HandleMessage: bot, subtype, empty, thread and command-like messages are ignored
HandleMessage(ps, th, cache, ignored, createFail) ==
  LET in == [ignored |-> ignored] IN
  IF ignored
  THEN Outcome("HandleMessage", "ignored", in, ps, th, cache, 0, FALSE, 0, {})
  ELSE IF createFail
  THEN Outcome("HandleMessage", "thoughtNotSaved", in, ps, th, cache, 0, TRUE, 0, {})
  ELSE Outcome("HandleMessage", "thought", in, ps, th + 1, cache, 0, FALSE, 1, {})

\* the store calls a reaction makes: none when the symbol or the index is not
\* handled, only the chosen post when its approval fails, else the whole batch
Consulted(cache, msg, reaction, fail) ==
  LET postIDs == IF msg \in DOMAIN cache THEN cache[msg] ELSE <<>>
      index   == CASE reaction = "one" -> 0 [] reaction = "two" -> 1
                   [] reaction = "three" -> 2 [] OTHER -> 0
  IN CASE reaction \in {"white_check_mark", "x", "calendar"} -> SeqToSet(postIDs)
       [] reaction \in {"one", "two", "three"} ->
            IF index >= Len(postIDs) THEN {}
            ELSE IF postIDs[index + 1] \in fail THEN {postIDs[index + 1]}
            ELSE SeqToSet(postIDs)
       [] OTHER -> {}

\* variant: the entry of the message is dropped once a reaction was resolved
ReactionOutcomeConsume(ps, th, cache, msg, reaction, fail, sendFail) ==
  LET r == HandleReaction(ps, cache, msg, reaction, fail, sendFail) IN
  Outcome("HandleReaction", r.effect, [msg |-> msg, reaction |-> reaction], r.posts, th,
          [m \in DOMAIN cache \ {msg} |-> cache[m]], r.count, r.err, r.sends,
          fail \cap Consulted(cache, msg, reaction, fail))

ReactionOutcome(ps, th, cache, msg, reaction, fail, sendFail) ==
  LET r == HandleReaction(ps, cache, msg, reaction, fail, sendFail) IN
  Outcome("HandleReaction", r.effect, [msg |-> msg, reaction |-> reaction], r.posts, th,
          cache, r.count, r.err, r.sends, fail \cap Consulted(cache, msg, reaction, fail))

\* the sets of posts on which the store can fail during one operation
FailSets(S) == {f \in SUBSET S : Cardinality(f) <= MaxFail}

BatchOf(cache, msg) == IF msg \in DOMAIN cache THEN SeqToSet(cache[msg]) ELSE {}

Approved(ps) == {i \in 1..Len(ps) : ps[i].status = "approved"}

\* every way the inner event of one callback delivery can be handled from the
\* current state (the switch of handleEvents), over all inputs and failures
HandlerOutcomes ==
  {ReactionOutcome(posts, thoughts, draftCache, x[1], x[2], x[3], FALSE) :
     x \in UNION {{<<m, r, f>> : r \in Reactions, f \in FailSets(BatchOf(draftCache, m))} :
                  m \in MsgIDs}}
  \cup
  {HandleSchedule(posts, thoughts, draftCache, arg, now, fetchFail, fail, FALSE) :
     arg \in ScheduleArgs, now \in 0..MaxDay, fetchFail \in BOOLEAN,
     fail \in FailSets(Approved(posts))}
  \cup
  {HandleGenerate(posts, thoughts, draftCache, x[1], x[2], x[3], x[4]) :
     x \in UNION {{<<k, g, c, sf>> : g \in BOOLEAN, c \in FailSets(1..k), sf \in BOOLEAN} :
                  k \in 1..MaxPosts}}
  \cup
  {HandleMentionThought(posts, thoughts, draftCache, createFail, FALSE) :
     createFail \in BOOLEAN}
  \cup
  {HandleHelp(posts, thoughts, draftCache, sendFail) : sendFail \in BOOLEAN}
  \cup
  {HandleMessage(posts, thoughts, draftCache, ignored, createFail) :
     ignored \in BOOLEAN, createFail \in BOOLEAN}
  \cup
  {Outcome("none", "unsupported", [kind |-> "other"], posts, thoughts, draftCache, 0,
           FALSE, 0, {})}

WithinBounds(h) ==
  /\ Len(h.posts) <= MaxPosts
  /\ h.thoughts <= MaxThoughts
  /\ Cardinality(DOMAIN h.cache) <= MaxMsgs

(***************************************************************************)
(* Server.handleEvents (server.go).                                        *)
(***************************************************************************)
\* what remains observable of a handler outcome once its effects are applied
Obs(h) ==
  [handler |-> h.handler, effect |-> h.effect, in |-> h.in, count |-> h.count,
   err |-> h.err, sends |-> h.sends, fail |-> h.fail]

NoObs ==
  [handler |-> "none", effect |-> "none", in |-> [kind |-> "none"], count |-> 0,
   err |-> FALSE, sends |-> 0, fail |-> {}]

\* envelopeID is the event_id of the envelope, recorded where a delivery is
\* handled in one step
Last(op, code, key, dup, obs) ==
  [op |-> op, code |-> code, key |-> key, dup |-> dup, h |-> obs, envelopeID |-> ""]

\* variant: the key is always built from the team and the type
EventKeyComposite(eventID, teamID, type) == teamID \o ":" \o type

\* the identity of a callback event: event_id when present, else team and type
EventKey(eventID, teamID, type) ==
  IF eventID # "" THEN eventID ELSE teamID \o ":" \o type

\* variant: the duplicate check never finds the key
HasSeenNever(seen, key) == FALSE

\* the read and the write of the processedEvents map
HasSeen(seen, key) == key \in seen

\* variant: the key is not recorded
MarkSeenDropped(seen, key) == seen

MarkSeen(seen, key) == seen \cup {key}

Apply(h) ==
  /\ posts' = h.posts
  /\ thoughts' = h.thoughts
  /\ draftCache' = h.cache

CountRouted(key) == routed' = [routed EXCEPT ![key] = @ + 1]

StatusOK == 200

\* variant: a handler error is answered with a server error
callbackStatusErr(dup, err) == IF err THEN 500 ELSE StatusOK

\* the status written for a callback event: line 104 for a duplicate, line 139
\* after routing, whatever the handler returned
callbackStatus(dup, err) == StatusOK

\* the answers given before the event is parsed and looked at
EarlyAnswers ==
  {<<"badHeaders", 400>>, <<"badSignature", 401>>, <<"parseError", 500>>,
   <<URLVerification, StatusOK>>, <<"otherType", StatusOK>>}

\* variant: the event is marked as processed before the signature is verified
handleEventsEarlyUnverified ==
  \E r \in EarlyAnswers :
    /\ last' = Last("handleEvents", r[2], "", FALSE, [NoObs EXCEPT !.effect = r[1]])
    /\ IF r[1] = "badSignature"
       THEN \E e \in EventIDs : processedEvents' = MarkSeen(processedEvents, e)
       ELSE UNCHANGED processedEvents
    /\ UNCHANGED <<goVars, posts, thoughts, draftCache, routed, pc, wreq, delivered>>

\* a delivery that is answered before the callback branch: signature headers
\* that cannot be used (400), a signature that does not verify (401), an
\* unparsable body (500), URL verification (challenge echo) or another type (200)
handleEventsEarly ==
  /\ \E r \in EarlyAnswers :
       last' = Last("handleEvents", r[2], "", FALSE, [NoObs EXCEPT !.effect = r[1]])
  /\ UNCHANGED <<goVars, posts, thoughts, draftCache, processedEvents, routed, pc, wreq, delivered>>

\* event_id values a delivery can carry: event identifiers are opaque, so a first
\* delivery carries the least unused one, a redelivery any used one, and "" is
\* an envelope without event_id
UsedEventIDs == (processedEvents \cup {wreq[w] : w \in Workers}) \cap EventIDs

NextEventID == "Ev" \o ToString(Cardinality(UsedEventIDs) + 1)

DeliveredEventIDs == ((UsedEventIDs \cup {NextEventID}) \cap EventIDs) \cup {""}

\* a verified callback delivery handled from start to end
handleEventsCallback ==
  \E eventID \in DeliveredEventIDs, teamID \in Teams :
    LET key == EventKey(eventID, teamID, CallbackEvent) IN
    IF key # "" /\ HasSeen(processedEvents, key)
    THEN /\ last' = [Last("handleEvents", callbackStatus(TRUE, FALSE), key, TRUE, NoObs)
                        EXCEPT !.envelopeID = eventID]
         /\ UNCHANGED <<goVars, posts, thoughts, draftCache, processedEvents, routed, pc, wreq, delivered>>
    ELSE \E h \in HandlerOutcomes :
           /\ WithinBounds(h)
           /\ processedEvents' = IF key # "" THEN MarkSeen(processedEvents, key)
                                 ELSE processedEvents
           /\ Apply(h)
           /\ CountRouted(key)
           /\ last' = [Last("handleEvents", callbackStatus(FALSE, h.err), key, FALSE, Obs(h))
                          EXCEPT !.envelopeID = eventID]
           /\ UNCHANGED <<goVars, pc, wreq, delivered>>

(***************************************************************************)
(* Operations of SchedulerAgent that no command reaches, called directly,  *)
(* and the external publisher.                                             *)
(***************************************************************************)
RescheduleTimes == {Time(d, 10, 30, "UTC") : d \in 0..MaxDay}

CancelScheduleCall ==
  \E postID \in PostIDs, failed \in BOOLEAN :
    LET fail == IF failed THEN {postID} ELSE {}
        r    == CancelSchedule(posts, postID, fail)
    IN /\ delivered < MaxCalls
       /\ delivered' = delivered + 1
       /\ posts' = r.posts
       /\ last' = Last("CancelSchedule", 0, "", FALSE,
                       [NoObs EXCEPT !.in = [id |-> postID, was |-> posts[postID].status],
                                     !.err = r.err, !.fail = fail])
       /\ UNCHANGED <<goVars, thoughts, draftCache, processedEvents, routed, pc, wreq>>

ReschedulePostCall ==
  \E postID \in PostIDs, newTime \in RescheduleTimes, failed \in BOOLEAN :
    LET fail == IF failed THEN {postID} ELSE {}
        r    == ReschedulePost(posts, postID, newTime, fail)
    IN /\ delivered < MaxCalls
       /\ delivered' = delivered + 1
       /\ posts' = r.posts
       /\ last' = Last("ReschedulePost", 0, "", FALSE,
                       [NoObs EXCEPT !.in = [id |-> postID, newTime |-> newTime,
                                             was |-> posts[postID].status],
                                     !.err = r.err, !.fail = fail])
       /\ UNCHANGED <<goVars, thoughts, draftCache, processedEvents, routed, pc, wreq>>

\* the configurations ScheduleApprovedPosts is called with: any postsPerDay
\* with the default slots, or explicit slots, in a zone that may not exist
Zones == {"Asia/Kolkata", "Nowhere/Fake"}

PreferredTimesValues == {<<T1200>>, <<T900, T1800>>, <<T0900, T2500>>, <<TNoColon, T1500>>}

ScheduleConfigs ==
  {ScheduleConfig(k, <<>>, d, z) : k \in 0..5, d \in 1..(MaxDay + 1), z \in Zones}
    \cup {ScheduleConfig(2, t, d, "Asia/Kolkata") :
            t \in PreferredTimesValues, d \in 1..(MaxDay + 1)}

ScheduleApprovedPostsCall ==
  \E config \in ScheduleConfigs, fetchFail \in BOOLEAN, fail \in FailSets(Approved(posts)) :
    LET r == ScheduleApprovedPosts(posts, config, fetchFail, fail) IN
    /\ delivered < MaxCalls
    /\ delivered' = delivered + 1
    /\ fetchFail => fail = {}
    /\ posts' = r.posts
    /\ last' = Last("ScheduleApprovedPosts", 0, "", FALSE,
                    [NoObs EXCEPT !.in = [config |-> config, fetchFail |-> fetchFail],
                                  !.count = r.count, !.err = r.err, !.fail = r.failed])
    /\ UNCHANGED <<goVars, thoughts, draftCache, processedEvents, routed, pc, wreq>>

PublishTime == Time(MaxDay + 1, 0, 0, "UTC")

\* the publisher is outside the repository: scheduled -> published, sets publishedAt
Publish ==
  \E postID \in PostIDs :
    /\ posts[postID].status = "scheduled"
    /\ posts[postID].scheduledAt.set
    /\ posts' = [posts EXCEPT ![postID].status = "published",
                              ![postID].publishedAt = PublishTime]
    /\ last' = Last("Publish", 0, "", FALSE, [NoObs EXCEPT !.in = [id |-> postID]])
    /\ UNCHANGED <<goVars, thoughts, draftCache, processedEvents, routed, pc, wreq, delivered>>

\* issue ids of the tracker
IssueIDs == 1..MaxIssues

\* a goroutine that is executing no call
NoFrame == [op |-> "none"]

\* no call in progress, NewWebhookHandler's empty map, the zero Mutex
InitGo ==
  /\ frame = [w \in Workers |-> NoFrame]
  /\ processedIssues = {}
  /\ mu = 0
  /\ issueThoughts = [i \in IssueIDs |-> 0]

(***************************************************************************)
(* The system with deliveries handled one after the other.                 *)
(***************************************************************************)
Init ==
  /\ posts = <<>>
  /\ thoughts \in 0..MaxThoughts
  /\ draftCache = <<>>
  /\ processedEvents = {}
  /\ routed = [k \in EventKeys |-> 0]
  /\ pc = [w \in Workers |-> "idle"]
  /\ wreq = [w \in Workers |-> ""]
  /\ delivered = 0
  /\ last = Last("init", 0, "", FALSE, NoObs)
  /\ InitGo

Next ==
  \/ handleEventsEarly
  \/ handleEventsCallback
  \/ Publish

Spec == Init /\ [][Next]_vars

(***************************************************************************)
(* The scheduler's operations called directly on a store as the reactions  *)
(* and schedule commands leave it: drafts, approved and rejected posts,    *)
(* and posts scheduled by an earlier run.                                  *)
(***************************************************************************)
StoredPost(content, status) ==
  [NewPost(content) EXCEPT
     !.status = status,
     !.scheduledAt = IF status = "scheduled" THEN Time(1, 9, 0, "Asia/Kolkata")
                     ELSE NilTime]

SchedStores ==
  UNION {{[i \in 1..n |-> StoredPost(i, f[i])] :
            f \in [1..n -> {"draft", "approved", "rejected", "scheduled"}]} :
         n \in 1..MaxPosts}

InitSched ==
  /\ posts \in SchedStores
  /\ thoughts = 0
  /\ draftCache = <<>>
  /\ processedEvents = {}
  /\ routed = [k \in EventKeys |-> 0]
  /\ pc = [w \in Workers |-> "idle"]
  /\ wreq = [w \in Workers |-> ""]
  /\ delivered = 0
  /\ last = Last("init", 0, "", FALSE, NoObs)
  /\ InitGo

NextSched ==
  \/ ScheduleApprovedPostsCall
  \/ CancelScheduleCall
  \/ ReschedulePostCall

SpecSched == InitSched /\ [][NextSched]_vars

(***************************************************************************)
(* The draft cache on its own: StoreDraftMessage and the lookup that       *)
(* HandleReaction makes, called with any message and any list of post IDs. *)
(***************************************************************************)
\* postIDs, exists := h.draftCache[event.Item.Timestamp]
Lookup(cache, msg) ==
  IF msg \in DOMAIN cache THEN [exists |-> TRUE, postIDs |-> cache[msg]]
  ELSE [exists |-> FALSE, postIDs |-> <<>>]

PostIDLists == UNION {[1..n -> 1..MaxPosts] : n \in 0..MaxPosts}

StoreDraftMessageCall ==
  \E messageTS \in MsgIDs, postIDs \in PostIDLists :
    /\ delivered < MaxStores
    /\ delivered' = delivered + 1
    /\ draftCache' = StoreDraftMessage(draftCache, messageTS, postIDs)
    /\ last' = Last("StoreDraftMessage", 0, "", FALSE,
                    [NoObs EXCEPT !.in = [msg |-> messageTS, postIDs |-> postIDs]])
    /\ UNCHANGED <<goVars, posts, thoughts, processedEvents, routed, pc, wreq>>

LookupCall ==
  \E msg \in MsgIDs :
    LET r == Lookup(draftCache, msg) IN
    /\ last' = Last("Lookup", 0, "", FALSE,
                    [NoObs EXCEPT !.in = [msg |-> msg, exists |-> r.exists,
                                          postIDs |-> r.postIDs]])
    /\ UNCHANGED <<goVars, posts, thoughts, draftCache, processedEvents, routed, pc, wreq,
                   delivered>>

NextCache == StoreDraftMessageCall \/ LookupCall

SpecCache == Init /\ [][NextCache]_vars

(***************************************************************************)
(* The system with deliveries handled concurrently: net/http runs          *)
(* handleEvents on one goroutine per request, and processedEvents is a     *)
(* plain map read (line 102) and written (line 107) without a lock.        *)
(***************************************************************************)
Receive(w) ==
  /\ pc[w] = "idle"
  /\ delivered < MaxDeliveries
  /\ delivered' = delivered + 1
  /\ \E eventID \in DeliveredEventIDs, teamID \in Teams :
       wreq' = [wreq EXCEPT ![w] = EventKey(eventID, teamID, CallbackEvent)]
  /\ pc' = [pc EXCEPT ![w] = "check"]
  /\ UNCHANGED <<goVars, posts, thoughts, draftCache, processedEvents, routed, last>>

CheckSeen(w) ==
  /\ pc[w] = "check"
  /\ IF HasSeen(processedEvents, wreq[w])
     THEN /\ pc' = [pc EXCEPT ![w] = "idle"]
          /\ wreq' = [wreq EXCEPT ![w] = ""]
          /\ last' = Last("handleEvents", callbackStatus(TRUE, FALSE), wreq[w], TRUE, NoObs)
     ELSE /\ pc' = [pc EXCEPT ![w] = "mark"]
          /\ UNCHANGED <<wreq, last>>
  /\ UNCHANGED <<goVars, posts, thoughts, draftCache, processedEvents, routed, delivered>>

MarkSeenStep(w) ==
  /\ pc[w] = "mark"
  /\ processedEvents' = MarkSeen(processedEvents, wreq[w])
  /\ pc' = [pc EXCEPT ![w] = "route"]
  /\ UNCHANGED <<goVars, posts, thoughts, draftCache, routed, wreq, delivered, last>>

Route(w) ==
  /\ pc[w] = "route"
  /\ \E h \in HandlerOutcomes :
       /\ WithinBounds(h)
       /\ Apply(h)
       /\ CountRouted(wreq[w])
       /\ last' = Last("handleEvents", callbackStatus(FALSE, h.err), wreq[w], FALSE, Obs(h))
  /\ pc' = [pc EXCEPT ![w] = "idle"]
  /\ wreq' = [wreq EXCEPT ![w] = ""]
  /\ UNCHANGED <<goVars, processedEvents, delivered>>

\* the unsynchronized accesses are a data race: when a write of the map overlaps
\* another access the runtime may stop the process ("concurrent map writes")
RaceAbort ==
  /\ \E w1, w2 \in Workers :
       w1 # w2 /\ pc[w1] = "mark" /\ pc[w2] \in {"check", "mark"}
  /\ pc' = [w \in Workers |-> "dead"]
  /\ last' = Last("fatal", 0, "", FALSE, NoObs)
  /\ UNCHANGED <<goVars, posts, thoughts, draftCache, processedEvents, routed, wreq, delivered>>

NextConc ==
  \/ \E w \in Workers : Receive(w)
  \/ \E w \in Workers : CheckSeen(w)
  \/ \E w \in Workers : MarkSeenStep(w)
  \/ \E w \in Workers : Route(w)
  \/ RaceAbort

SpecConc == Init /\ [][NextConc]_vars

(***************************************************************************)
(* Reactions handled by concurrent request goroutines.  Each reaction is   *)
(* its own event, so the duplicate check lets both through; the handler's  *)
(* store calls are separate statements on the shared posts table and       *)
(* interleave.  The store calls succeed here.                              *)
(***************************************************************************)
\* the switch of HandleReaction
reactionEffect(reaction) ==
  CASE reaction = "white_check_mark" -> "approveDrafts"
    [] reaction = "x"        -> "rejectDrafts"
    [] reaction \in {"one", "two", "three"} -> "approveSpecificDraft"
    [] reaction = "calendar" -> "scheduleDrafts"
    [] OTHER                 -> "unknownReaction"

\* 0-based index argument of approveSpecificDraft
reactionIndex(reaction) ==
  CASE reaction = "one" -> 0 [] reaction = "two" -> 1 [] reaction = "three" -> 2
    [] OTHER -> 0 - 1

ReactionFrame(effect, reaction, postIDs) ==
  [op |-> effect, reaction |-> reaction, postIDs |-> postIDs,
   index |-> reactionIndex(reaction), i |-> 1, post |-> NilTime, count |-> 0]

\* the observation a finished reaction handler leaves
ReactionDone(w, f, effect, sends) ==
  Last("HandleReaction", 0, "", FALSE,
       [NoObs EXCEPT !.handler = "HandleReaction", !.effect = effect,
                     !.in = [w |-> w, reaction |-> f.reaction], !.count = f.count,
                     !.sends = sends])

\* the observation of one store write
WriteObs(op, w, id, status, read) ==
  Last(op, 0, "", FALSE,
       [NoObs EXCEPT !.in = [w |-> w, id |-> id, status |-> status, read |-> read,
                             was |-> posts[id].status]])

\* HandleReaction up to the first store call of the operation it selects
BeginReaction(w) ==
  /\ pc[w] = "idle"
  /\ delivered < MaxReactions
  /\ delivered' = delivered + 1
  /\ \E msg \in MsgIDs, reaction \in Reactions :
       LET r == Lookup(draftCache, msg)
           effect == reactionEffect(reaction)
           f == ReactionFrame(effect, reaction, r.postIDs)
       IN IF ~r.exists
          THEN /\ last' = ReactionDone(w, f, "noDraft", 0)
               /\ UNCHANGED <<pc, frame>>
          ELSE IF effect = "unknownReaction"
          THEN /\ last' = ReactionDone(w, f, effect, 0)
               /\ UNCHANGED <<pc, frame>>
          ELSE IF effect = "approveSpecificDraft" /\ f.index >= Len(r.postIDs)
          THEN /\ last' = ReactionDone(w, f, "invalidVariation", 1)
               /\ UNCHANGED <<pc, frame>>
          ELSE /\ frame' = [frame EXCEPT ![w] =
                              IF effect = "approveSpecificDraft"
                              THEN [f EXCEPT !.i = f.index + 1] ELSE f]
               /\ pc' = [pc EXCEPT ![w] =
                           IF Len(r.postIDs) = 0 THEN "send"
                           ELSE IF effect = "rejectDrafts" THEN "status" ELSE "get"]
               /\ UNCHANGED last
  /\ UNCHANGED <<posts, thoughts, draftCache, processedEvents, routed, wreq,
                 processedIssues, mu, issueThoughts>>

\* post, err := h.postRepo.GetByID(ctx, postID)
GetStep(w) ==
  /\ pc[w] = "get"
  /\ frame' = [frame EXCEPT ![w].post = GetByID(posts, frame[w].postIDs[frame[w].i])]
  /\ pc' = [pc EXCEPT ![w] = "update"]
  /\ UNCHANGED <<posts, thoughts, draftCache, processedEvents, routed, wreq, delivered,
                 last, processedIssues, mu, issueThoughts>>

\* post.Status = "approved"; h.postRepo.Update(ctx, post)
UpdateStep(w) ==
  /\ pc[w] = "update"
  /\ LET f      == frame[w]
         postID == f.postIDs[f.i]
         post   == [f.post EXCEPT !.status = "approved"]
     IN /\ posts' = Update(posts, postID, post)
        /\ last' = WriteObs("Update", w, postID, "approved", f.post.status)
        /\ IF f.op = "approveSpecificDraft"
           THEN /\ frame' = [frame EXCEPT ![w].i = 1, ![w].count = 1]
                /\ pc' = [pc EXCEPT ![w] = "status"]
           ELSE /\ frame' = [frame EXCEPT ![w].i = f.i + 1, ![w].count = f.count + 1]
                /\ pc' = [pc EXCEPT ![w] = IF f.i + 1 > Len(f.postIDs) THEN "send" ELSE "get"]
  /\ UNCHANGED <<thoughts, draftCache, processedEvents, routed, wreq, delivered,
                 processedIssues, mu, issueThoughts>>

\* h.postRepo.UpdateStatus(ctx, id, "rejected") in rejectDrafts and in the loop
\* of approveSpecificDraft, which passes over the approved index
UpdateStatusStep(w) ==
  /\ pc[w] = "status"
  /\ LET f      == frame[w]
         skip   == f.op = "approveSpecificDraft" /\ f.i = f.index + 1
         postID == f.postIDs[f.i]
     IN /\ IF skip
           THEN UNCHANGED <<posts, last>>
           ELSE /\ posts' = UpdateStatus(posts, postID, "rejected")
                /\ last' = WriteObs("UpdateStatus", w, postID, "rejected", "none")
        /\ frame' = [frame EXCEPT ![w].i = f.i + 1,
                                  ![w].count = IF f.op = "rejectDrafts" THEN f.count + 1
                                               ELSE f.count]
        /\ pc' = [pc EXCEPT ![w] = IF f.i + 1 > Len(f.postIDs) THEN "send" ELSE "status"]
  /\ UNCHANGED <<thoughts, draftCache, processedEvents, routed, wreq, delivered,
                 processedIssues, mu, issueThoughts>>

\* return h.client.SendMessage(event.Item.Channel, message)
SendStep(w) ==
  /\ pc[w] = "send"
  /\ last' = ReactionDone(w, frame[w], frame[w].op, 1)
  /\ pc' = [pc EXCEPT ![w] = "idle"]
  /\ UNCHANGED <<posts, thoughts, draftCache, processedEvents, routed, wreq, delivered,
                 goVars>>

\* the table and the cache as one generate command leaves them
InitReact ==
  /\ \E n \in 1..MaxBatch :
       /\ posts = [i \in 1..n |-> NewPost(i)]
       /\ draftCache = <<[i \in 1..n |-> i]>>
  /\ thoughts = 0
  /\ processedEvents = {}
  /\ routed = [k \in EventKeys |-> 0]
  /\ pc = [w \in Workers |-> "idle"]
  /\ wreq = [w \in Workers |-> ""]
  /\ delivered = 0
  /\ last = Last("init", 0, "", FALSE, NoObs)
  /\ InitGo

NextReact ==
  \/ \E w \in Workers : BeginReaction(w)
  \/ \E w \in Workers : GetStep(w)
  \/ \E w \in Workers : UpdateStep(w)
  \/ \E w \in Workers : UpdateStatusStep(w)
  \/ \E w \in Workers : SendStep(w)

SpecReact == InitReact /\ [][NextReact]_vars

(***************************************************************************)
(* ScheduleApprovedPosts called by concurrent request goroutines (two      *)
(* schedule commands handled at once).  The fetch and each Update are      *)
(* separate statements on the shared posts table.  The store calls succeed *)
(* here.                                                                   *)
(***************************************************************************)
ScheduleFrame(config, fetched, approvedPosts, times, location) ==
  [op |-> "ScheduleApprovedPosts", config |-> config, fetched |-> fetched,
   approvedPosts |-> approvedPosts, times |-> times, location |-> location, i |-> 1,
   currentDate |-> config.StartDate, timeSlotIndex |-> 0, scheduledCount |-> 0]

ScheduleDone(w, f) ==
  Last("ScheduleApprovedPosts", 0, "", FALSE,
       [NoObs EXCEPT !.in = [w |-> w, config |-> f.config, fetchFail |-> FALSE],
                     !.count = f.scheduledCount])

\* GetByStatus, the empty-list return, LoadLocation and the default slot list
BeginSchedule(w) ==
  /\ pc[w] = "idle"
  /\ delivered < MaxRuns
  /\ delivered' = delivered + 1
  /\ \E config \in ScheduleConfigs :
       LET approvedPosts == GetByStatus(posts, "approved", Len(posts))
           l        == LoadLocation(config.Timezone)
           location == IF l.ok THEN l.loc ELSE "UTC"
           times    == IF Len(config.PreferredTimes) = 0
                       THEN getDefaultTimes(config.PostsPerDay)
                       ELSE config.PreferredTimes
           f        == ScheduleFrame(config, posts, approvedPosts, times, location)
       IN /\ frame' = [frame EXCEPT ![w] = f]
          /\ IF Len(approvedPosts) = 0
             THEN /\ last' = ScheduleDone(w, f)
                  /\ UNCHANGED pc
             ELSE /\ pc' = [pc EXCEPT ![w] = "loop"]
                  /\ UNCHANGED last
  /\ UNCHANGED <<posts, thoughts, draftCache, processedEvents, routed, wreq,
                 processedIssues, mu, issueThoughts>>

\* one iteration of the loop over approvedPosts
ScheduleStep(w) ==
  /\ pc[w] = "loop"
  /\ LET f    == frame[w]
         id   == f.approvedPosts[f.i]
         t    == calculateScheduledTime(f.currentDate, f.times[f.timeSlotIndex + 1],
                                        f.location)
         n    == nextSlot(f.currentDate, f.timeSlotIndex, Len(f.times))
         post == [f.fetched[id] EXCEPT !.scheduledAt = t.time, !.status = "scheduled"]
     IN /\ IF ~t.ok
           THEN /\ frame' = [frame EXCEPT ![w].i = f.i + 1]
                /\ UNCHANGED <<posts, last>>
           ELSE /\ posts' = Update(posts, id, post)
                /\ last' = WriteObs("Update", w, id, "scheduled", f.fetched[id].status)
                /\ frame' = [frame EXCEPT ![w].i = f.i + 1,
                                          ![w].currentDate = n.date,
                                          ![w].timeSlotIndex = n.index,
                                          ![w].scheduledCount = f.scheduledCount + 1]
        /\ pc' = [pc EXCEPT ![w] = IF f.i + 1 > Len(f.approvedPosts) THEN "return"
                                   ELSE "loop"]
  /\ UNCHANGED <<thoughts, draftCache, processedEvents, routed, wreq, delivered,
                 processedIssues, mu, issueThoughts>>

\* return scheduledCount, nil
ReturnSchedule(w) ==
  /\ pc[w] = "return"
  /\ last' = ScheduleDone(w, frame[w])
  /\ pc' = [pc EXCEPT ![w] = "idle"]
  /\ UNCHANGED <<posts, thoughts, draftCache, processedEvents, routed, wreq, delivered,
                 goVars>>

\* the table as reactions leave it before any schedule command
ApprovalStores ==
  UNION {{[i \in 1..n |-> StoredPost(i, f[i])] : f \in [1..n -> {"draft", "approved"}]} :
         n \in 1..MaxPosts}

InitRuns ==
  /\ posts \in ApprovalStores
  /\ thoughts = 0
  /\ draftCache = <<>>
  /\ processedEvents = {}
  /\ routed = [k \in EventKeys |-> 0]
  /\ pc = [w \in Workers |-> "idle"]
  /\ wreq = [w \in Workers |-> ""]
  /\ delivered = 0
  /\ last = Last("init", 0, "", FALSE, NoObs)
  /\ InitGo

NextRuns ==
  \/ \E w \in Workers : BeginSchedule(w)
  \/ \E w \in Workers : ScheduleStep(w)
  \/ \E w \in Workers : ReturnSchedule(w)

SpecRuns == InitRuns /\ [][NextRuns]_vars

(***************************************************************************)
(* linear.WebhookHandler (package linear): HandleWebhook is registered     *)
(* with net/http, so deliveries are handled by concurrent goroutines.      *)
(* processedIssues is read and written between mu.Lock and mu.Unlock.      *)
(***************************************************************************)
\* a delivery as HandleWebhook reads it: body that cannot be read or parsed,
\* or a payload with its type, action, issue id and state type
WebhookPayloads ==
  {[bodyOK |-> FALSE, Type |-> "", Action |-> "", dataOK |-> FALSE, ID |-> 0, StateType |-> ""]}
    \cup {[bodyOK |-> TRUE, Type |-> t, Action |-> a, dataOK |-> d, ID |-> id, StateType |-> st] :
            t \in {"Issue", "Comment"}, a \in {"update", "create"}, d \in BOOLEAN,
            id \in IssueIDs, st \in {"completed", "started"}}

WebhookDone(w, payload, effect, code, err) ==
  Last("HandleWebhook", code, "", effect = "duplicate",
       [NoObs EXCEPT !.handler = "HandleWebhook", !.effect = effect,
                     !.in = [w |-> w, payload |-> payload], !.err = err])

\* the answer HandleWebhook gives before it takes the lock, "" when it goes on
webhookEarly(payload) ==
  IF ~payload.bodyOK THEN [effect |-> "badBody", code |-> 400]
  ELSE IF payload.Type # "Issue" THEN [effect |-> "notIssue", code |-> 200]
  ELSE IF payload.Action # "update" THEN [effect |-> "notUpdate", code |-> 200]
  ELSE IF ~payload.dataOK THEN [effect |-> "badData", code |-> 400]
  ELSE IF payload.StateType # "completed" THEN [effect |-> "notCompleted", code |-> 200]
  ELSE [effect |-> "", code |-> 0]

\* variant: Lock returns although another goroutine holds the mutex
canLockAlways(m) == TRUE

\* sync.Mutex: Lock returns only while no goroutine holds the mutex
canLock(m) == m = 0

\* HandleWebhook from reading the body to the state check
ReceiveWebhook(w) ==
  /\ pc[w] = "idle"
  /\ delivered < MaxWebhooks
  /\ delivered' = delivered + 1
  /\ \E payload \in WebhookPayloads :
       LET e == webhookEarly(payload) IN
       IF e.effect # ""
       THEN /\ last' = WebhookDone(w, payload, e.effect, e.code, FALSE)
            /\ UNCHANGED <<pc, frame>>
       ELSE /\ frame' = [frame EXCEPT ![w] = [op |-> "HandleWebhook", payload |-> payload,
                                              seen |-> FALSE]]
            /\ pc' = [pc EXCEPT ![w] = "lock"]
            /\ UNCHANGED last
  /\ UNCHANGED <<posts, thoughts, draftCache, processedEvents, routed, wreq,
                 processedIssues, mu, issueThoughts>>

\* h.mu.Lock()
LockStep(w) ==
  /\ pc[w] = "lock"
  /\ canLock(mu)
  /\ mu' = w
  /\ pc' = [pc EXCEPT ![w] = "check"]
  /\ UNCHANGED <<posts, thoughts, draftCache, processedEvents, routed, wreq, delivered,
                 last, frame, processedIssues, issueThoughts>>

\* if h.processedIssues[issueData.ID]
CheckIssue(w) ==
  /\ pc[w] = "check"
  /\ frame' = [frame EXCEPT ![w].seen = frame[w].payload.ID \in processedIssues]
  /\ pc' = [pc EXCEPT ![w] = IF frame[w].payload.ID \in processedIssues THEN "unlock"
                             ELSE "mark"]
  /\ UNCHANGED <<posts, thoughts, draftCache, processedEvents, routed, wreq, delivered,
                 last, processedIssues, mu, issueThoughts>>

\* h.processedIssues[issueData.ID] = true
MarkIssue(w) ==
  /\ pc[w] = "mark"
  /\ processedIssues' = processedIssues \cup {frame[w].payload.ID}
  /\ pc' = [pc EXCEPT ![w] = "unlock"]
  /\ UNCHANGED <<posts, thoughts, draftCache, processedEvents, routed, wreq, delivered,
                 last, frame, mu, issueThoughts>>

\* h.mu.Unlock(), on the duplicate path followed by the 200 answer
UnlockStep(w) ==
  /\ pc[w] = "unlock"
  /\ mu' = 0
  /\ IF frame[w].seen
     THEN /\ last' = WebhookDone(w, frame[w].payload, "duplicate", 200, FALSE)
          /\ pc' = [pc EXCEPT ![w] = "idle"]
     ELSE /\ pc' = [pc EXCEPT ![w] = "create"]
          /\ UNCHANGED last
  /\ UNCHANGED <<posts, thoughts, draftCache, processedEvents, routed, wreq, delivered,
                 frame, processedIssues, issueThoughts>>

\* createThoughtFromIssue: a failed categorization falls back to defaults, a
\* failed Create is logged; the answer is 200 either way
CreateThoughtStep(w) ==
  /\ pc[w] = "create"
  /\ \E createFail \in BOOLEAN :
       LET id == frame[w].payload.ID IN
       /\ issueThoughts' = IF createFail THEN issueThoughts
                           ELSE [issueThoughts EXCEPT ![id] = @ + 1]
       /\ thoughts' = IF createFail THEN thoughts ELSE thoughts + 1
       /\ last' = WebhookDone(w, frame[w].payload,
                              IF createFail THEN "thoughtNotSaved" ELSE "thought", 200,
                              createFail)
  /\ pc' = [pc EXCEPT ![w] = "idle"]
  /\ UNCHANGED <<posts, draftCache, processedEvents, routed, wreq, delivered, frame,
                 processedIssues, mu>>

NextLinear ==
  \/ \E w \in Workers : ReceiveWebhook(w)
  \/ \E w \in Workers : LockStep(w)
  \/ \E w \in Workers : CheckIssue(w)
  \/ \E w \in Workers : MarkIssue(w)
  \/ \E w \in Workers : UnlockStep(w)
  \/ \E w \in Workers : CreateThoughtStep(w)

InitLinear ==
  /\ posts = <<>>
  /\ thoughts = 0
  /\ draftCache = <<>>
  /\ processedEvents = {}
  /\ routed = [k \in EventKeys |-> 0]
  /\ pc = [w \in Workers |-> "idle"]
  /\ wreq = [w \in Workers |-> ""]
  /\ delivered = 0
  /\ last = Last("init", 0, "", FALSE, NoObs)
  /\ InitGo

SpecLinear == InitLinear /\ [][NextLinear]_vars

TypeOK ==
  /\ Len(posts) <= MaxPosts
  /\ \A i \in PostIDs : posts[i].status \in Statuses
  /\ thoughts \in 0..MaxThoughts
  /\ processedEvents \subseteq EventKeys

(***************************************************************************)
(* Properties.  `last` describes the step just taken, so an action         *)
(* property reads the operation and its results from last' and the state   *)
(* before and after from the unprimed and primed variables.                *)
(***************************************************************************)
ResolverEffects == {"approveDrafts", "rejectDrafts", "approveSpecificDraft", "scheduleDrafts"}

IsReactionStep ==
  /\ last'.op = "handleEvents"
  /\ ~last'.dup
  /\ last'.h.handler = "HandleReaction"

IsResolverStep == IsReactionStep /\ last'.h.effect \in ResolverEffects

IsScheduleStep ==
  /\ last'.op = "handleEvents"
  /\ ~last'.dup
  /\ last'.h.effect \in {"schedule", "scheduleFailed"}

\* the batch the reaction of this step was resolved to
StepBatch == draftCache[last'.h.in.msg]

\* C1: a post whose status is rejected or published keeps that status through
\* every reaction the approval resolver handles
C1_TerminalStatusIsFinal ==
  [][IsReactionStep =>
       \A i \in PostIDs :
         posts[i].status \in {"rejected", "published"}
           => posts'[i].status = posts[i].status]_vars

\* C2: a seen event key stays seen, a key is routed at most once, and a
\* delivery whose key is already seen is dropped without touching anything
C2_SeenStaysSeen ==
  [][/\ processedEvents \subseteq processedEvents'
     /\ \A k \in EventKeys : routed'[k] <= 1
     /\ (last'.op = "handleEvents" /\ last'.key \in processedEvents)
          => /\ last'.dup
             /\ last'.h.handler = "none"
             /\ UNCHANGED <<posts, thoughts, draftCache, processedEvents, routed>>]_vars

\* a redelivery of an event that was routed once has just been dropped
C2_Witness ==
  /\ last.op = "handleEvents"
  /\ last.dup
  /\ last.key \in processedEvents
  /\ routed[last.key] = 1

\* C3: scheduledAt is set exactly when the status is scheduled or published
C3_ScheduledAtIffScheduled ==
  \A i \in PostIDs :
    posts[i].scheduledAt.set <=> posts[i].status \in {"scheduled", "published"}

\* C4: a transition attempted on a post that is not in the required source
\* state leaves its status unchanged and is not counted as a success
C4_PreconditionEnforced ==
  [][/\ IsResolverStep =>
          \A i \in SeqToSet(StepBatch) :
            posts[i].status # "draft"
              => /\ posts'[i].status = posts[i].status
                 /\ last'.h.count <=
                      Cardinality({j \in SeqToSet(StepBatch) : posts[j].status = "draft"})
     /\ IsScheduleStep =>
          \A i \in PostIDs :
            posts[i].status # "approved" => posts'[i].status = posts[i].status]_vars

\* C5: of the concurrent deliveries that carry one event key, at most one
\* gets past the duplicate check and is routed
C5_AtMostOneProceeds == \A k \in EventKeys : routed[k] <= 1

\* the 1-based position an approve-index reaction names
IndexOf(reaction) ==
  CASE reaction = "one" -> 1 [] reaction = "two" -> 2 [] reaction = "three" -> 3

IsApproveIndexStep ==
  /\ IsReactionStep
  /\ last'.h.in.msg \in DOMAIN draftCache
  /\ last'.h.in.reaction \in {"one", "two", "three"}
  /\ IndexOf(last'.h.in.reaction) <= Len(StepBatch)

\* what approve-index(N) is to leave: pN approved, the rest of the batch rejected
ApproveIndexDone ==
  \A j \in 1..Len(StepBatch) :
    posts'[StepBatch[j]].status =
      IF j = IndexOf(last'.h.in.reaction) THEN "approved" ELSE "rejected"

SlotHours == <<  <<9>>, <<9, 15>>, <<9, 13, 17>>, <<9, 12, 15, 18>>  >>

\* C7: with k slots per day and every store call succeeding, the i-th approved
\* post in store order is scheduled at (start + i div k, slot[i mod k])
C7_RoundRobin ==
  [][(IsScheduleStep /\ last'.h.effect = "schedule" /\ last'.h.fail = {})
       => LET approved == GetByStatus(posts, "approved", Len(posts))
              k        == last'.h.in.postsPerDay
              start    == last'.h.in.now + 1
          IN /\ last'.h.count = Len(approved)
             /\ \A i \in 0..(Len(approved) - 1) :
                  /\ posts'[approved[i + 1]].status = "scheduled"
                  /\ posts'[approved[i + 1]].scheduledAt =
                       Time(start + (i \div k), SlotHours[k][(i % k) + 1], 0,
                            "Asia/Kolkata")]_vars

\* three approved posts, two per day: D 09:00, D 15:00, D+1 09:00 in store order
C7_Witness ==
  /\ last.op = "handleEvents" /\ ~last.dup
  /\ last.h.effect = "schedule"
  /\ last.h.in.postsPerDay = 2
  /\ last.h.count = 3
  /\ Len(posts) = 3
  /\ posts[3].scheduledAt = Time(last.h.in.now + 1, 9, 0, "Asia/Kolkata")
  /\ posts[2].scheduledAt = Time(last.h.in.now + 1, 15, 0, "Asia/Kolkata")
  /\ posts[1].scheduledAt = Time(last.h.in.now + 2, 9, 0, "Asia/Kolkata")
  /\ \A i \in 1..3 : posts[i].status = "scheduled"

\* the status a resolver effect gives the j-th post of the batch
Target(effect, reaction, j) ==
  CASE effect = "rejectDrafts" -> "rejected"
    [] effect = "approveSpecificDraft" ->
         IF j = IndexOf(reaction) THEN "approved" ELSE "rejected"
    [] OTHER -> "approved"

C9_SkipFailedPersist ==
  [][(IsScheduleStep /\ last'.h.fail # {})
       => /\ last'.h.effect = "schedule"
          /\ last'.h.fail \subseteq Approved(posts)
          /\ \A i \in last'.h.fail : posts'[i] = posts[i]
          /\ \A i \in Approved(posts) \ last'.h.fail : posts'[i].status = "scheduled"
          /\ last'.h.count = Cardinality(Approved(posts) \ last'.h.fail)]_vars

\* the first post in store order failed and a later one was scheduled
C9_Witness ==
  /\ last.op = "handleEvents" /\ ~last.dup
  /\ last.h.effect = "schedule"
  /\ last.h.count >= 1
  /\ \E i \in last.h.fail, j \in PostIDs :
       /\ j < i
       /\ posts[i].status = "approved"
       /\ posts[j].status = "scheduled"

\* C10: a reaction on a message that is not in the draft cache changes no
\* post, sends nothing and returns no error
C10_UntrackedIgnored ==
  [][(IsReactionStep /\ last'.h.in.msg \notin DOMAIN draftCache)
       => /\ posts' = posts
          /\ UNCHANGED <<thoughts, draftCache>>
          /\ last'.h.sends = 0
          /\ ~last'.h.err]_vars

\* an approving reaction on an untracked message while drafts are waiting
C10_Witness ==
  /\ last.op = "handleEvents" /\ ~last.dup
  /\ last.h.handler = "HandleReaction"
  /\ last.h.in.msg \notin DOMAIN draftCache
  /\ last.h.in.reaction = "white_check_mark"
  /\ last.h.effect = "noDraft"
  /\ \E i \in PostIDs : posts[i].status = "draft"

\* the symbols HandleReaction acts on
TableSymbols == {"white_check_mark", "x", "one", "two", "three", "calendar"}

\* C11: a reaction with a symbol outside the table on a tracked message
\* changes no post, sends nothing and returns no error
C11_UnknownSymbolIgnored ==
  [][(/\ IsReactionStep
      /\ last'.h.in.msg \in DOMAIN draftCache
      /\ last'.h.in.reaction \notin TableSymbols)
       => /\ posts' = posts
          /\ UNCHANGED <<thoughts, draftCache>>
          /\ last'.h.sends = 0
          /\ ~last'.h.err]_vars

\* a thumbs-up on the summary message of a batch whose posts are still drafts
C11_Witness ==
  /\ last.op = "handleEvents" /\ ~last.dup
  /\ last.h.handler = "HandleReaction"
  /\ last.h.effect = "unknownReaction"
  /\ last.h.in.reaction = "thumbsup"
  /\ last.h.in.msg \in DOMAIN draftCache
  /\ \E i \in SeqToSet(draftCache[last.h.in.msg]) : posts[i].status = "draft"

IsScheduleCommand ==
  /\ last'.op = "handleEvents" /\ ~last'.dup
  /\ last'.h.handler = "HandleAppMention"
  /\ last'.h.in.cmd = "schedule"

\* C13: a schedule command with an integer argument outside 1..4 is answered
\* with one message and the scheduler is not run: no post changes
C13_InvalidPostsPerDayRejected ==
  [][(/\ IsScheduleCommand
      /\ last'.h.in.arg.kind = "int"
      /\ last'.h.in.arg.val \notin 1..4)
       => /\ last'.h.effect = "invalidPostsPerDay"
          /\ last'.h.sends = 1
          /\ posts' = posts]_vars

\* "schedule 5" while an approved post is waiting: the post stays approved
C13_Witness ==
  /\ last.op = "handleEvents" /\ ~last.dup
  /\ last.h.handler = "HandleAppMention"
  /\ last.h.effect = "invalidPostsPerDay"
  /\ last.h.in.arg = [kind |-> "int", val |-> 5]
  /\ \E i \in PostIDs : posts[i].status = "approved" /\ ~posts[i].scheduledAt.set

IsScheduleCall == last'.op = "ScheduleApprovedPosts"

\* C14: with a zone name that cannot be loaded, Schedule fails no more than
\* with a valid zone, and it schedules the same posts at the same day, hour
\* and minute, in UTC
C14_InvalidZoneFallsBackToUTC ==
  [][(IsScheduleCall /\ ~LoadLocation(last'.h.in.config.Timezone).ok)
       => LET valid == [last'.h.in.config EXCEPT !.Timezone = "Asia/Kolkata"]
              v     == ScheduleApprovedPosts(posts, valid, last'.h.in.fetchFail,
                                             last'.h.fail)
          IN /\ last'.h.err = v.err
             /\ last'.h.count = v.count
             /\ \A i \in PostIDs :
                  /\ posts'[i].status = v.posts[i].status
                  /\ posts'[i].scheduledAt =
                       IF posts[i].status = "approved" /\ posts'[i].status = "scheduled"
                       THEN [v.posts[i].scheduledAt EXCEPT !.loc = "UTC"]
                       ELSE v.posts[i].scheduledAt]_vars

\* a run with the zone "Nowhere/Fake" that scheduled two posts, in UTC
C14_Witness ==
  /\ last.op = "ScheduleApprovedPosts"
  /\ last.h.in.config.Timezone = "Nowhere/Fake"
  /\ ~last.h.err
  /\ last.h.count >= 2
  /\ \E i \in PostIDs :
       /\ posts[i].status = "scheduled"
       /\ posts[i].scheduledAt.loc = "UTC"
       /\ posts[i].scheduledAt.hour = 15

\* C15: a callback event that was verified and parsed is answered with 200,
\* be it a duplicate, routed to a handler that succeeded or to one that failed
C15_CallbackAnswered200 ==
  [][(last'.op = "handleEvents" /\ last'.key # "") => last'.code = 200]_vars

\* a routed event whose handler returned an error, answered with 200
C15_Witness ==
  /\ last.op = "handleEvents"
  /\ last.key # ""
  /\ ~last.dup
  /\ last.h.handler = "HandleReaction"
  /\ last.h.err
  /\ last.code = 200

\* C16: a delivery whose signature does not verify is answered with an error
\* status and nothing is processed: the idempotency cache, the posts, the
\* thoughts and the draft cache are unchanged and no handler is invoked
C16_VerificationFirst ==
  [][(last'.op = "handleEvents" /\ last'.h.effect \in {"badHeaders", "badSignature"})
       => /\ last'.code \in {400, 401}
          /\ last'.h.handler = "none"
          /\ UNCHANGED <<posts, thoughts, draftCache, processedEvents, routed>>]_vars

\* an unverified delivery arriving after events were processed and posts stored
C16_Witness ==
  /\ last.op = "handleEvents"
  /\ last.h.effect = "badSignature"
  /\ last.code = 401
  /\ Cardinality(processedEvents) = 1
  /\ Len(posts) > 0

\* C17: an entry of the draft cache, once stored, is never changed or
\* removed, whatever is handled afterwards
C17_CacheEntryPermanent ==
  [][\A m \in DOMAIN draftCache :
       m \in DOMAIN draftCache' /\ draftCache'[m] = draftCache[m]]_vars

\* a reaction resolved on the first summary message after a second generate
\* command stored its own entry
C17_Witness ==
  /\ Cardinality(DOMAIN draftCache) = 2
  /\ last.op = "handleEvents" /\ ~last.dup
  /\ last.h.handler = "HandleReaction"
  /\ last.h.effect \in ResolverEffects
  /\ last.h.in.msg = 1
  /\ Len(draftCache[1]) >= 1
  /\ Len(draftCache[2]) >= 1

\* C20: a calendar reaction leaves every post with the status and scheduledAt
\* an approve-all reaction gives from the same state, and sets no post to
\* scheduled and no scheduledAt
C20_CalendarIsApproveAll ==
  [][(IsReactionStep /\ last'.h.effect = "scheduleDrafts")
       => LET a == approveDrafts(posts, StepBatch, last'.h.fail, FALSE) IN
          /\ last'.h.count = a.count
          /\ \A i \in PostIDs :
               /\ posts'[i].status = a.posts[i].status
               /\ posts'[i].scheduledAt = a.posts[i].scheduledAt
               /\ posts'[i].scheduledAt = posts[i].scheduledAt
               /\ posts'[i].status = "scheduled" => posts[i].status = "scheduled"]_vars

\* a calendar reaction on a batch of drafts: approved, without a time
C20_Witness ==
  /\ last.op = "handleEvents" /\ ~last.dup
  /\ last.h.handler = "HandleReaction"
  /\ last.h.effect = "scheduleDrafts"
  /\ last.h.count >= 2
  /\ Cardinality(processedEvents) = 2
  /\ \A i \in SeqToSet(draftCache[last.h.in.msg]) \ last.h.fail :
       posts[i].status = "approved" /\ ~posts[i].scheduledAt.set

\* C18: a lookup of M right after StoreDraftMessage(M, ids) finds the entry
\* and returns ids, in the order given, also when M had an entry before
C18_StoreLookupRoundTrip ==
  [][(/\ last.op = "StoreDraftMessage"
      /\ last'.op = "Lookup"
      /\ last'.h.in.msg = last.h.in.msg)
       => /\ last'.h.in.exists
          /\ last'.h.in.postIDs = last.h.in.postIDs]_vars

\* the lookup of a message stored twice returns the second list, in its order
C18_Witness ==
  /\ last.op = "Lookup"
  /\ last.h.in.exists
  /\ last.h.in.postIDs = <<2, 3, 1>>
  /\ delivered = 2
  /\ Cardinality(DOMAIN draftCache) = 1

IsCancelCall == last'.op = "CancelSchedule"

\* C19: a cancel that returns no error on a scheduled post leaves it approved
\* with no scheduledAt and changes no other post; the post is then among the
\* approved posts Schedule fetches, and a Schedule run schedules it
C19_CancelReturnsToApproved ==
  [][(/\ IsCancelCall
      /\ ~last'.h.err
      /\ posts[last'.h.in.id].status = "scheduled")
       => LET id   == last'.h.in.id
              next == ScheduleApprovedPosts(posts', ScheduleConfig(2, <<>>, 1, "UTC"),
                                            FALSE, {})
          IN /\ posts'[id].status = "approved"
             /\ posts'[id].scheduledAt = NilTime
             /\ \A i \in PostIDs \ {id} : posts'[i] = posts[i]
             /\ id \in SeqToSet(GetByStatus(posts', "approved", Len(posts')))
             /\ next.posts[id].status = "scheduled"
             /\ next.posts[id].scheduledAt.set]_vars

\* a scheduled post cancelled as the second call: approved again, without a time
C19_Witness ==
  /\ last.op = "CancelSchedule"
  /\ ~last.h.err
  /\ last.h.in.was = "scheduled"
  /\ delivered = 2
  /\ posts[last.h.in.id].status = "approved"
  /\ ~posts[last.h.in.id].scheduledAt.set

\* the hours of the slots a configuration stands for (all at minute 0): the
\* table of postsPerDay when no slots are given, else the slots given
ExpectedSlotHours(config) ==
  CASE config.PreferredTimes = <<T1200>>       -> <<12>>
    [] config.PreferredTimes = <<T900, T1800>> -> <<9, 18>>
    [] config.PreferredTimes = <<>> ->
         IF config.PostsPerDay \in 1..4 THEN SlotHours[config.PostsPerDay]
         ELSE <<9, 13, 17>>

\* C21: without explicit slots Schedule uses the table of postsPerDay (the
\* three-slot table for a value outside 1..4), and explicit slots are used as
\* given: when no update fails, the i-th approved post in store order gets
\* slot i mod n of that list on day start + i div n
C21_SlotList ==
  [][(/\ IsScheduleCall
      /\ ~last'.h.err
      /\ last'.h.fail = {}
      /\ last'.h.in.config.PreferredTimes \in {<<>>, <<T1200>>, <<T900, T1800>>})
       => LET approved == GetByStatus(posts, "approved", Len(posts))
              hours    == ExpectedSlotHours(last'.h.in.config)
              n        == Len(hours)
          IN /\ last'.h.count = Len(approved)
             /\ \A i \in 0..(Len(approved) - 1) :
                  LET t == posts'[approved[i + 1]].scheduledAt IN
                  /\ posts'[approved[i + 1]].status = "scheduled"
                  /\ t.set
                  /\ t.day = last'.h.in.config.StartDate + (i \div n)
                  /\ t.hour = hours[(i % n) + 1]
                  /\ t.min = 0]_vars

\* postsPerDay 5 without explicit slots: three posts at 09:00, 13:00 and 17:00
C21_Witness ==
  /\ last.op = "ScheduleApprovedPosts"
  /\ last.h.in.config.PostsPerDay = 5
  /\ last.h.in.config.PreferredTimes = <<>>
  /\ last.h.count = 3
  /\ Len(posts) = 3
  /\ posts[3].scheduledAt.hour = 9
  /\ posts[2].scheduledAt.hour = 13
  /\ posts[1].scheduledAt.hour = 17
  /\ \A i \in 1..3 : posts[i].scheduledAt.day = last.h.in.config.StartDate


\* the posts a resolver or schedule-command step may transition
Transitioned ==
  IF last'.h.handler = "HandleReaction" THEN SeqToSet(StepBatch)
  ELSE {i \in 1..Len(posts) : posts[i].status = "approved"}

\* C22: a resolver reaction or a schedule command changes only status and
\* scheduledAt, and only of the posts it transitions: content and publishedAt
\* of every post, and every field of every other post, are as before
C22_FrameStatusAndTime ==
  [][(IsResolverStep \/ IsScheduleStep) =>
       /\ Len(posts') = Len(posts)
       /\ \A i \in 1..Len(posts) :
            /\ posts'[i].content = posts[i].content
            /\ posts'[i].publishedAt = posts[i].publishedAt
            /\ i \notin Transitioned => posts'[i] = posts[i]]_vars

C22_Witness ==
  /\ last.op = "handleEvents"
  /\ ~last.dup
  /\ last.h.effect = "schedule"
  /\ last.h.count = 1
  /\ \E i \in 1..Len(posts) :
       /\ posts[i].status = "scheduled"
       /\ posts[i].scheduledAt.set
       /\ posts[i].content = i
  /\ \E j \in 1..Len(posts) :
       /\ posts[j].status = "published"
       /\ posts[j].publishedAt = PublishTime
       /\ posts[j].content = j


IsWriteStep == last'.op \in {"Update", "UpdateStatus"} /\ last' # last

\* C23: reactions handled concurrently on the same post are not ordered by any
\* check: a write goes through whatever the row's status has become since the
\* handler read it, the row then carries the status of that write, and every
\* handler finishes having written each post of its batch, without an error
C23_LastWriteWins ==
  [][/\ IsWriteStep =>
          /\ posts'[last'.h.in.id].status = last'.h.in.status
          /\ \A i \in 1..Len(posts) : i # last'.h.in.id => posts'[i] = posts[i]
     /\ (last'.op = "HandleReaction" /\ last'.h.effect \in {"approveDrafts", "rejectDrafts", "scheduleDrafts"}) =>
          (~last'.h.err /\ last'.h.count = Len(draftCache[1]))]_vars

\* an approve-all that read the post as draft writes approved over the rejected
\* that a reject-all wrote in between
C23_Witness ==
  /\ last.op = "Update"
  /\ last.h.in.read = "draft"
  /\ last.h.in.was = "rejected"
  /\ posts[last.h.in.id].status = "approved"
  /\ \E w \in Workers :
       /\ w # last.h.in.w
       /\ frame[w].op = "rejectDrafts"
       /\ frame[w].count >= 1
  /\ frame[last.h.in.w].op = "approveDrafts"


\* other values the scheduledAt of an already-scheduled post could have
OtherScheduledTimes == {Time(1, 9, 0, "Asia/Kolkata"), Time(MaxDay + 3, 18, 0, "UTC")}

\* the tables that differ from ps only in the times of its already-scheduled posts
DifferInScheduled(ps) ==
  {[i \in 1..Len(ps) |->
      IF ps[i].status = "scheduled" THEN [ps[i] EXCEPT !.scheduledAt = f[i]] ELSE ps[i]] :
   f \in [1..Len(ps) -> OtherScheduledTimes]}

\* C24: the timestamps a run of ScheduleApprovedPosts assigns depend only on the
\* configuration and the approved posts it fetched: the same call on a table that
\* differs only in its already-scheduled posts assigns the same timestamps to the
\* same posts and returns the same count
C24_TimesIgnoreScheduled ==
  [][IsScheduleCall =>
       \A other \in DifferInScheduled(posts) :
         LET r == ScheduleApprovedPosts(other, last'.h.in.config, last'.h.in.fetchFail,
                                        last'.h.fail)
         IN /\ r.count = last'.h.count
            /\ r.err = last'.h.err
            /\ \A i \in 1..Len(posts) :
                 posts[i].status = "approved" =>
                   /\ r.posts[i].status = posts'[i].status
                   /\ r.posts[i].scheduledAt = posts'[i].scheduledAt]_vars

\* a run that scheduled one post gave it the time another post already had
C24_Witness ==
  /\ last.op = "ScheduleApprovedPosts"
  /\ last.h.count = 1
  /\ Len(posts) = 2
  /\ \E i, j \in 1..Len(posts) :
       /\ i # j
       /\ posts[i].status = "scheduled"
       /\ posts[j].status = "scheduled"
       /\ posts[i].scheduledAt.set
       /\ posts[i].scheduledAt = posts[j].scheduledAt


IsCallbackStep == last'.op = "handleEvents" /\ last'.key # ""

CompositeKeys == {t \o ":" \o CallbackEvent : t \in Teams}

\* C25: the key of a callback delivery is the envelope's event id exactly when
\* that id is present and not empty; the key built from the team and the event
\* type is used exactly when it is not
C25_KeySelection ==
  [][IsCallbackStep =>
       /\ last'.envelopeID # "" => last'.key = last'.envelopeID
       /\ last'.envelopeID = "" => last'.key \in CompositeKeys
       /\ last'.key \in CompositeKeys <=> last'.envelopeID = ""
       /\ last'.key \in processedEvents']_vars

\* a delivery without an event id was handled under the composite key after a
\* delivery with an explicit id was handled under that id
C25_Witness ==
  /\ last.op = "handleEvents"
  /\ ~last.dup
  /\ last.envelopeID = ""
  /\ last.key \in CompositeKeys
  /\ last.h.handler # "none"
  /\ "Ev1" \in processedEvents
  /\ routed["Ev1"] = 1
  /\ routed[last.key] = 1


\* C26: a callback delivery is marked seen before its handler runs, whatever the
\* handler then returns, and no step removes a mark: a delivery whose key is
\* marked is dropped as a duplicate and changes nothing, so no key is routed to
\* a handler more than once, also when the one handler call failed
C26_MarkedBeforeHandler ==
  [][/\ (IsCallbackStep /\ ~last'.dup) =>
          /\ last'.key \notin processedEvents
          /\ last'.key \in processedEvents'
          /\ routed'[last'.key] = 1
     /\ (IsCallbackStep /\ last'.key \in processedEvents) =>
          /\ last'.dup
          /\ UNCHANGED <<posts, thoughts, draftCache, processedEvents, routed>>
     /\ processedEvents \subseteq processedEvents'
     /\ \A k \in EventKeys : routed'[k] <= 1]_vars

\* the one delivery handled so far saved drafts and then failed to send the
\* summary, so no cache entry exists; its redelivery was dropped
C26_Witness ==
  /\ last.op = "handleEvents"
  /\ last.dup
  /\ last.key = "Ev1"
  /\ processedEvents = {"Ev1"}
  /\ routed["Ev1"] = 1
  /\ Len(posts) >= 1
  /\ draftCache = <<>>


\* C27: the content of a post is the number of the variation it was created
\* from, the number the summary message displays it under; approve-index(N) on
\* the summary message approves the post whose content is variation N, also
\* when saving an earlier variation failed
C27_IndexNamesVariation ==
  [][(/\ IsApproveIndexStep
      /\ last'.h.effect = "approveSpecificDraft"
      /\ ~last'.h.err)
       => LET N == IndexOf(last'.h.in.reaction) IN
          /\ posts'[StepBatch[N]].status = "approved"
          /\ posts'[StepBatch[N]].content = N]_vars


\* the slot list a run works with
EffectiveTimes(config) ==
  IF Len(config.PreferredTimes) = 0 THEN getDefaultTimes(config.PostsPerDay)
  ELSE config.PreferredTimes

\* 0-based indexes of the slot strings that do not parse
MalformedSlots(times) == {j \in 0..(Len(times) - 1) : ~timeParse(times[j + 1]).ok}

\* the posts of a list that a table holds as scheduled, in the order of the list
ScheduledOf(approved, ps) == SelectSeq(approved, LAMBDA id : ps[id].status = "scheduled")

\* what C28 says of every run: the posts it schedules, in fetch order, take the
\* round-robin positions 0, 1, 2, ... without a gap, no two of them share a date
\* and slot, every other post is left as it was, and the count is at most the
\* index of a slot string that does not parse
SlotsWithoutGaps ==
  LET config   == last'.h.in.config
      approved == GetByStatus(posts, "approved", Len(posts))
      times    == EffectiveTimes(config)
      n        == Len(times)
      done     == ScheduledOf(approved, posts')
      l        == LoadLocation(config.Timezone)
      location == IF l.ok THEN l.loc ELSE "UTC"
  IN /\ last'.h.count = Len(done)
     /\ \A k \in 0..(Len(done) - 1) :
          posts'[done[k + 1]].scheduledAt =
            calculateScheduledTime(config.StartDate + (k \div n), times[(k % n) + 1],
                                   location).time
     /\ \A k1, k2 \in 1..Len(done) :
          k1 # k2 => posts'[done[k1]].scheduledAt # posts'[done[k2]].scheduledAt
     /\ \A i \in 1..Len(posts) :
          posts'[i].status # "scheduled" \/ posts[i].status = "scheduled"
            => posts'[i] = posts[i]
     /\ \A j \in MalformedSlots(times) : last'.h.count <= j

\* C28 as stated: a failed time calculation or store update does not use up a
\* slot, and when the slot string at index j does not parse, every post from
\* position j of the fetched list onward is skipped
C28_FailureKeepsSlot ==
  [][(IsScheduleCall /\ ~last'.h.err) =>
       LET approved == GetByStatus(posts, "approved", Len(posts))
           times    == EffectiveTimes(last'.h.in.config)
       IN /\ SlotsWithoutGaps
          /\ \A j \in MalformedSlots(times) :
               \A p \in (j + 1)..Len(approved) :
                 posts'[approved[p]].status # "scheduled"]_vars

\* C28 amended: a failed time calculation or store update does not use up a
\* slot, and when the slot string at index j does not parse, no post is scheduled
\* once j posts have been: the count is at most j, while a post at position j or
\* later of the fetched list is still scheduled when the update of an earlier
\* post failed
C28_FailureKeepsSlotByCount ==
  [][(IsScheduleCall /\ ~last'.h.err) => SlotsWithoutGaps]_vars

\* slots 09:00 and 25:00, three approved posts: the update of the first fetched
\* post failed, the second took 09:00, the third met the slot that does not parse
C28_Witness ==
  /\ last.op = "ScheduleApprovedPosts"
  /\ ~last.h.err
  /\ last.h.fail = {3}
  /\ last.h.count = 1
  /\ last.h.in.config.PreferredTimes = <<T0900, T2500>>
  /\ Len(posts) = 3
  /\ posts[3].status = "approved"
  /\ posts[2].status = "scheduled"
  /\ posts[2].scheduledAt.hour = 9
  /\ posts[2].scheduledAt.day = last.h.in.config.StartDate
  /\ posts[1].status = "approved"


\* the count a goroutine's run of ScheduleApprovedPosts has reached
RunCount(w) ==
  IF frame[w].op = "ScheduleApprovedPosts" THEN frame[w].scheduledCount ELSE 0

\* C29: with two runs of ScheduleApprovedPosts over the same table, each approved
\* post is moved to scheduled by at most one of them: the counts of the runs add
\* up to the number of posts that are now scheduled, and no run writes a post
\* that is scheduled already
C29_OneRunPerPost ==
  /\ RunCount(1) + RunCount(2) = Cardinality({i \in 1..Len(posts) : posts[i].status = "scheduled"})
  /\ (last.op = "Update" /\ last.h.in.status = "scheduled") => last.h.in.was = "approved"


\* a delivery answered before the lock: not an update of an Issue into a
\* completed state, or not readable
IsIgnoredWebhook ==
  /\ last'.op = "HandleWebhook"
  /\ last'.h.effect \in {"badBody", "notIssue", "notUpdate", "badData", "notCompleted"}
  /\ last' # last

\* C30: however the deliveries to the issue tracker's webhook interleave, at
\* most one thought is stored per issue id, and only for an id that is marked;
\* a delivery that is not an update of an Issue into a completed state stores
\* no thought and marks nothing, and a completion whose id is not marked is
\* never dropped: it goes on to mark the id and to create the thought
C30_OneThoughtPerIssue ==
  [][/\ \A id \in IssueIDs :
          /\ issueThoughts'[id] <= 1
          /\ issueThoughts'[id] = 1 => id \in processedIssues'
     /\ IsIgnoredWebhook => UNCHANGED <<processedIssues, issueThoughts, thoughts, pc>>
     /\ \A w \in Workers :
          (pc[w] = "check" /\ pc'[w] # "check" /\ frame[w].payload.ID \notin processedIssues)
            => pc'[w] = "mark"
     /\ \A w \in Workers :
          (pc[w] = "mark" /\ pc'[w] # "mark") => frame[w].payload.ID \notin processedIssues]_vars

\* two completions of issue 1 among three deliveries: one stored the thought,
\* the other was dropped as a duplicate
C30_Witness ==
  /\ last.op = "HandleWebhook"
  /\ last.h.effect = "duplicate"
  /\ last.h.in.payload.ID = 1
  /\ issueThoughts[1] = 1
  /\ processedIssues = {1}
  /\ delivered = 3
  /\ \E w \in Workers :
       /\ w # last.h.in.w
       /\ pc[w] = "idle"
       /\ frame[w].op = "HandleWebhook"
       /\ frame[w].payload.ID = 1
       /\ ~frame[w].seen

====
